---- MODULE Spec2Model ----
(***************************************************************************)
(* A model of the Flux build server's core helpers (flux/utils.py), its    *)
(* configuration (flux_config.py) and its entry point (flux/__init__.py).  *)
(*                                                                         *)
(* Every component has its own variable(s) and its own specification; a    *)
(* specification holds the variables of the other components fixed.        *)
(*                                                                         *)
(* Python values are records of one shape, so that values of different     *)
(* Python types can be compared:                                           *)
(*   t      the Python type: "NoneType", "bool", "int", "str", "list",     *)
(*          "dict"                                                         *)
(*   n      the number of an int, 0/1 of a bool                            *)
(*   s      the text of a str                                              *)
(*   keys   the keys of a dict, in insertion order                         *)
(*   items  the elements of a list, or the values of a dict (items[i] is   *)
(*          the value of keys[i])                                          *)
(* Text that the code scans character by character (a dotted key, a        *)
(* header value, a command line) is a sequence of one-character strings.   *)
(***************************************************************************)
EXTENDS Integers, Sequences, FiniteSets, TLC

VARIABLES
  gcall,      \* one call of get(data, key, expect_type, default)
  vcall,      \* one call of verify_secret(request, repo, api)
  scall,      \* one call of ssh_command(url, *args, ...)
  rn,         \* one call of run(command, logger, ...) and its child process
  wl,         \* the calls of handlers wrapped by with_logger, one per request
  streams,    \* the io.StringIO of each request: the entries logged to it
  bq,         \* main() and the build queue: configuration, slots, jobs
  fs,         \* the directories that exist
  mk          \* the calls of makedirs(path), one per worker

vars == <<gcall, vcall, scall, rn, wl, streams, bq, fs, mk>>

-----------------------------------------------------------------------------
(* Python values and call outcomes                                         *)

PyNone == [t |-> "NoneType", n |-> 0, s |-> "", keys |-> <<>>, items |-> <<>>]
PyBool(b) == [t |-> "bool", n |-> IF b THEN 1 ELSE 0, s |-> "", keys |-> <<>>, items |-> <<>>]
PyInt(i) == [t |-> "int", n |-> i, s |-> "", keys |-> <<>>, items |-> <<>>]
PyStr(x) == [t |-> "str", n |-> 0, s |-> x, keys |-> <<>>, items |-> <<>>]
PyList(xs) == [t |-> "list", n |-> 0, s |-> "", keys |-> <<>>, items |-> xs]
PyDict(ks, vs) == [t |-> "dict", n |-> 0, s |-> "", keys |-> ks, items |-> vs]

\* A call that has not finished, one that returned v, one that raised e.
Pending == [kind |-> "pending", value |-> PyNone, exc |-> ""]
Return(v) == [kind |-> "return", value |-> v, exc |-> ""]
Raise(e) == [kind |-> "raise", value |-> PyNone, exc |-> e]

\* The str of a sequence of characters.
RECURSIVE Text(_)
Text(cs) == IF cs = <<>> THEN "" ELSE cs[1] \o Text(Tail(cs))

\* str.split(sep) for a one-character sep: the pieces between the separators.
RECURSIVE SplitFrom(_, _, _, _)
SplitFrom(cs, sep, i, cur) ==
  IF i > Len(cs) THEN <<cur>>
  ELSE IF cs[i] = sep THEN <<cur>> \o SplitFrom(cs, sep, i + 1, <<>>)
  ELSE SplitFrom(cs, sep, i + 1, Append(cur, cs[i]))

SplitOn(cs, sep) == SplitFrom(cs, sep, 1, <<>>)

\* sep.join(words)
RECURSIVE join(_, _)
join(sep, words) ==
  IF words = <<>> THEN <<>>
  ELSE IF Len(words) = 1 THEN words[1]
  ELSE words[1] \o sep \o join(sep, Tail(words))

\* str.replace(old, new): every occurrence of old, found from left to right
\* and without overlap, becomes new.
RECURSIVE replace(_, _, _)
replace(cs, old, new) ==
  IF Len(cs) < Len(old) THEN cs
  ELSE IF SubSeq(cs, 1, Len(old)) = old
       THEN new \o replace(SubSeq(cs, Len(old) + 1, Len(cs)), old, new)
       ELSE <<cs[1]>> \o replace(Tail(cs), old, new)

\* All sequences over S of length at most n.
SeqsUpTo(S, n) == UNION {[1..k -> S] : k \in 0..n}

\* request.headers.get('X-Hub-Signature'): None when the header is absent.
NoHeader == [present |-> FALSE, value |-> <<>>]
Header(cs) == [present |-> TRUE, value |-> cs]

\* The value of a component's variable while another component is checked.
GetIdle == [data |-> PyNone, key |-> <<>>, expect_type |-> "None", out |-> Pending]
VerifyIdle == [api |-> "", secret |-> PyNone, body |-> "", header |-> NoHeader, out |-> Pending]

\* An optional argument: None, or a value.
None == [some |-> FALSE, v |-> ""]
Just(x) == [some |-> TRUE, v |-> x]
NoneBool == [some |-> FALSE, v |-> FALSE]
NoneDict == [some |-> FALSE, v |-> <<>>]

SshIdle ==
  [url |-> None, args |-> <<>>, no_ptty |-> FALSE, identity_file |-> None,
   verbose |-> NoneBool, options |-> NoneDict, ssh_verbose |-> FALSE,
   done |-> FALSE, out |-> <<>>]

RunIdle ==
  [command |-> [isstr |-> TRUE, text |-> <<>>, argv |-> <<>>], shell |-> FALSE,
   pc |-> "idle", log |-> <<>>, popen |-> [isstr |-> TRUE, text |-> <<>>, argv |-> <<>>],
   returncode |-> 0, stdout |-> [utf8 |-> TRUE, text |-> <<>>], out |-> Pending]

Requests == {"r1", "r2"}

WrapIdle ==
  [r \in Requests |->
     [pc |-> "idle", replace |-> TRUE, kwargs |-> {}, logger |-> "", handler |-> Pending,
      out |-> Pending]]
StreamsIdle == [r \in Requests |-> <<>>]

NoJob == [repo |-> "", num |-> 0]
QueueIdle ==
  [main |-> "idle", parallel_builds |-> 0, slots |-> <<>>, pending |-> <<>>,
   status |-> <<>>, next_num |-> <<>>]

Workers == {"w1", "w2"}
MkIdle == [w \in Workers |-> [pc |-> "idle", path |-> <<>>, stack |-> <<>>, out |-> Pending]]

-----------------------------------------------------------------------------
(* get_raise and get                                                       *)

MaxKeyLen == 3

Digits == {"0", "1"}
KeyChars == {"a", "0", "1", ".", "-"}

\* key.split('.'): the segments between the periods; never empty.
split(key) == SplitOn(key, ".")

\* int(part) succeeds: an optional sign and at least one digit (over KeyChars
\* there is no "+", "_" or white space); otherwise int() raises ValueError.
IsIntLiteral(part) ==
  LET body == IF part # <<>> /\ part[1] = "-" THEN Tail(part) ELSE part
  IN  body # <<>> /\ \A i \in 1..Len(body) : body[i] \in Digits

RECURSIVE DigitsValue(_)
DigitsValue(ds) ==
  IF ds = <<>> THEN 0
  ELSE 10 * DigitsValue(SubSeq(ds, 1, Len(ds) - 1))
       + (IF ds[Len(ds)] = "1" THEN 1 ELSE 0)

int(part) ==
  IF part[1] = "-" THEN 0 - DigitsValue(Tail(part)) ELSE DigitsValue(part)

\* data[part] of a dict: KeyError when the key is missing.
DictItem(data, k) ==
  IF \E i \in 1..Len(data.keys) : data.keys[i] = k
  THEN Return(data.items[CHOOSE i \in 1..Len(data.keys) : data.keys[i] = k])
  ELSE Raise("KeyError")

\* data[part] of a list: Python counts a negative index from the end;
\* IndexError when the index is out of range.
ListItem(data, i) ==
  LET len == Len(data.items)
  IN  IF 0 <= i /\ i < len THEN Return(data.items[i + 1])
      ELSE IF i < 0 /\ 0 - len <= i THEN Return(data.items[len + i + 1])
      ELSE Raise("IndexError")

\* isinstance(value, expect_type); bool is a subclass of int.
IsInstance(value, type) ==
  \/ value.t = type
  \/ type = "int" /\ value.t = "bool"

\* One round of the loop of get_raise over parts[i..].
RECURSIVE Walk(_, _, _)
Walk(data, parts, i) ==
  IF i > Len(parts) THEN Return(data)
  ELSE LET part == parts[i] IN
    IF ~IsIntLiteral(part)
    THEN IF data.t # "dict" THEN Raise("TypeError")
         ELSE LET r == DictItem(data, Text(part)) IN
              IF r.kind = "raise" THEN Raise("KeyError")
              ELSE Walk(r.value, parts, i + 1)
    ELSE IF data.t # "list" THEN Raise("TypeError")
         ELSE LET r == ListItem(data, int(part)) IN
              IF r.kind = "raise" THEN Raise("KeyError")
              ELSE Walk(r.value, parts, i + 1)

\* expect_type "None" stands for expect_type=None.
get_raise(data, key, expect_type) ==
  LET r == Walk(data, split(key), 1) IN
  IF r.kind = "raise" THEN r
  ELSE IF expect_type # "None" /\ ~IsInstance(r.value, expect_type)
       THEN Raise("TypeError")
       ELSE r

GetCaughtKeyErrorOnly == {"KeyError"}

\* The exceptions of get's except clause.
GetCaught == {"TypeError", "ValueError", "KeyError"}

get(data, key, expect_type, default) ==
  LET r == get_raise(data, key, expect_type) IN
  IF r.kind = "raise" /\ r.exc \in GetCaught THEN Return(default) ELSE r

\* The JSON values a call is tried on.
Leaves == {PyNone, PyBool(TRUE), PyInt(7), PyStr("x")}
Lists1 ==
  {PyList(<<>>), PyList(<<PyInt(7), PyStr("x")>>)} \cup {PyList(<<v>>) : v \in Leaves}
Dicts1 ==
  {PyDict(<<>>, <<>>), PyDict(<<"a", "0">>, <<PyInt(7), PyStr("x")>>)}
  \cup {PyDict(<<k>>, <<v>>) : k \in {"a", "0", ""}, v \in Leaves}
Nested ==
  {PyDict(<<"a">>, <<c>>) : c \in Lists1 \cup Dicts1}
  \cup {PyList(<<c>>) : c \in Lists1 \cup Dicts1}
JsonValues == Leaves \cup Lists1 \cup Dicts1 \cup Nested

ExpectTypes == {"None", "dict", "list", "str", "int"}
GetDefault == PyStr("<default>")

InitGet ==
  /\ gcall \in [data : JsonValues, key : SeqsUpTo(KeyChars, MaxKeyLen),
                expect_type : ExpectTypes, out : {Pending}]
  /\ vcall = VerifyIdle
  /\ scall = SshIdle
  /\ rn = RunIdle
  /\ wl = WrapIdle
  /\ streams = StreamsIdle
  /\ bq = QueueIdle
  /\ fs = {}
  /\ mk = MkIdle

\* The caller calls get(data, key, expect_type, default).
Get ==
  /\ gcall.out.kind = "pending"
  /\ gcall' = [gcall EXCEPT !.out = get(gcall.data, gcall.key, gcall.expect_type, GetDefault)]
  /\ UNCHANGED <<vcall, scall, rn, wl, streams, bq, fs, mk>>

NextGet == Get

SpecGet == InitGet /\ [][NextGet]_vars

\* What the walk described by the claim finds: the value after the first k
\* segments of parts, or nothing.
Nothing == [found |-> FALSE, v |-> PyNone]
Some(v) == [found |-> TRUE, v |-> v]

Child(c, seg) ==
  IF IsIntLiteral(seg)
  THEN LET i == int(seg) len == Len(c.items) IN
       IF c.t = "list" /\ i < len /\ i >= 0 - len
       THEN Some(c.items[IF i >= 0 THEN i + 1 ELSE len + i + 1])
       ELSE Nothing
  ELSE IF c.t = "dict" /\ Text(seg) \in {c.keys[j] : j \in 1..Len(c.keys)}
       THEN Some(c.items[CHOOSE j \in 1..Len(c.keys) : c.keys[j] = Text(seg)])
       ELSE Nothing

RECURSIVE At(_, _, _)
At(data, parts, k) ==
  IF k = 0 THEN Some(data)
  ELSE LET p == At(data, parts, k - 1) IN
       IF p.found THEN Child(p.v, parts[k]) ELSE Nothing

Looked(c) ==
  LET parts == split(c.key)
      end == At(c.data, parts, Len(parts))
  IN  IF end.found /\ (c.expect_type = "None" \/ IsInstance(end.v, c.expect_type))
      THEN end.v ELSE GetDefault

\* C9: get never raises, for any JSON value and any dotted key: it returns the
\* value the segment-by-segment walk finds (an integer segment indexes a list,
\* any other segment a dictionary), and the default when a key is missing, an
\* index is out of range, a container has the wrong type or the final value is
\* not of expect_type.
C9_GetNeverRaises ==
  /\ gcall.out.kind # "raise"
  /\ gcall.out.kind = "return" => gcall.out.value = Looked(gcall)

\* A call with an integer segment applied to a dictionary (TypeError inside
\* get_raise) that has returned the default.
C9_Witness ==
  /\ gcall.out = Return(GetDefault)
  /\ gcall.data.t = "dict"
  /\ gcall.key = <<"0">>
  /\ gcall.data.keys = <<"0">>

-----------------------------------------------------------------------------
(* verify_secret                                                           *)

DigestLen == 3

API_GOGS == "gogs"
API_GITHUB == "github"
Apis == {API_GOGS, API_GITHUB, "gitlab", "bitbucket"}

\* repo.secret: unset, a str, or (as in the tests) an int.
SecretTexts == <<"s1", "s2">>
Secrets == {PyNone, PyInt(123)} \cup {PyStr(SecretTexts[i]) : i \in 1..Len(SecretTexts)}

\* request.data, as the text of the body; the last one is no UTF-8.
BodyList ==
  << "{}",
     "{\"secret\": \"s1\"}",
     "{\"secret\": \"s2\"}",
     "{\"secret\": 123}",
     "{\"secret\": null}",
     "{\"repository\": {\"secret\": \"s1\"}}",
     "[\"s1\"]",
     "\"s1\"",
     "null",
     "payload=%7B%7D",
     "\\xff" >>
Bodies == {BodyList[i] : i \in 1..Len(BodyList)}

\* request.data.decode('utf8')
decode(body) == IF body = "\\xff" THEN Raise("UnicodeDecodeError") ELSE Return(PyStr(body))

\* json.loads(text): the value of each body; ValueError (JSONDecodeError) for
\* a body that is no JSON.
json_loads(text) ==
  CASE text = "{}" -> Return(PyDict(<<>>, <<>>))
    [] text = "{\"secret\": \"s1\"}" -> Return(PyDict(<<"secret">>, <<PyStr("s1")>>))
    [] text = "{\"secret\": \"s2\"}" -> Return(PyDict(<<"secret">>, <<PyStr("s2")>>))
    [] text = "{\"secret\": 123}" -> Return(PyDict(<<"secret">>, <<PyInt(123)>>))
    [] text = "{\"secret\": null}" -> Return(PyDict(<<"secret">>, <<PyNone>>))
    [] text = "{\"repository\": {\"secret\": \"s1\"}}" ->
         Return(PyDict(<<"repository">>, <<PyDict(<<"secret">>, <<PyStr("s1")>>)>>))
    [] text = "[\"s1\"]" -> Return(PyList(<<PyStr("s1")>>))
    [] text = "\"s1\"" -> Return(PyStr("s1"))
    [] text = "null" -> Return(PyNone)
    [] OTHER -> Raise("ValueError")

\* a == b of two Python values: a bool compares as the int 0 or 1.
PyEq(a, b) ==
  IF a.t \in {"bool", "int"} /\ b.t \in {"bool", "int"} THEN a.n = b.n ELSE a = b

\* hmac.new(key, body, hashlib.sha1).hexdigest(): DigestLen hexadecimal digits,
\* different for different (key, body): the number of the pair written in
\* base Len(HexDigits).
HexDigits == <<"0", "1", "a", "b">>

IndexOf(seq, x) == CHOOSE i \in 1..Len(seq) : seq[i] = x

RECURSIVE ToHex(_, _)
ToHex(n, len) ==
  IF len = 0 THEN <<>>
  ELSE Append(ToHex(n \div Len(HexDigits), len - 1), HexDigits[(n % Len(HexDigits)) + 1])

hexdigest(key, body) ==
  ToHex((IndexOf(SecretTexts, key) - 1) * Len(BodyList) + (IndexOf(BodyList, body) - 1),
        DigestLen)

Sha1Prefix == <<"s", "h", "a", "1", "=">>
SecretKey == <<"s", "e", "c", "r", "e", "t">>

\* The branch of verify_secret for Gogs.
verify_gogs(secret, data) ==
  LET got == get(data, SecretKey, "None", PyNone) IN
  IF got.kind = "raise" THEN got ELSE Return(PyBool(PyEq(secret, got.value)))

\* The branch of verify_secret for GitHub: bytes(repo.secret, 'utf-8') raises
\* TypeError unless the secret is a str, None.replace raises AttributeError.
verify_github(secret, body, header) ==
  IF secret.t # "str" THEN Raise("TypeError")
  ELSE IF ~header.present THEN Raise("AttributeError")
  ELSE Return(PyBool(hexdigest(secret.s, body) = replace(header.value, Sha1Prefix, <<>>)))

verify_secret(body, header, secret, api) ==
  LET text == decode(body)
      data == json_loads(text.value.s)
  IN  IF text.kind = "raise" THEN text
      ELSE IF data.kind = "raise" THEN data
      ELSE IF api = API_GOGS THEN verify_gogs(secret, data.value)
      ELSE IF api = API_GITHUB THEN verify_github(secret, body, header)
      ELSE Return(PyBool(FALSE))

\* The header values a request is tried with, around a digest d.
upper(c) == CASE c = "a" -> "A" [] c = "b" -> "B" [] OTHER -> c

HeadersAround(d) ==
  { Sha1Prefix \o d,                                  \* the right form
    d,                                                \* no prefix
    Sha1Prefix \o Sha1Prefix \o d,                    \* the prefix twice
    d \o Sha1Prefix,                                  \* the prefix at the end
    <<"s", "h", "a", "1">> \o d,                      \* a cut prefix
    <<"S", "H", "A", "1", "=">> \o d,                 \* another case
    <<"s", "h">> \o Sha1Prefix \o <<"a", "1", "=">> \o d,
    Sha1Prefix \o d \o <<"0">>,
    Sha1Prefix \o [i \in 1..Len(d) |-> upper(d[i])] }
  \cup { SubSeq(d, 1, i) \o Sha1Prefix \o SubSeq(d, i + 1, Len(d)) : i \in 1..Len(d) }

Digests == {hexdigest(SecretTexts[i], b) : i \in 1..Len(SecretTexts), b \in Bodies}

HeaderValues ==
  {NoHeader, Header(<<>>), Header(Sha1Prefix)}
  \cup {Header(h) : h \in UNION {HeadersAround(d) : d \in Digests}}

InitVerify ==
  /\ vcall \in [api : Apis, secret : Secrets, body : Bodies, header : HeaderValues,
                out : {Pending}]
  /\ gcall = GetIdle
  /\ scall = SshIdle
  /\ rn = RunIdle
  /\ wl = WrapIdle
  /\ streams = StreamsIdle
  /\ bq = QueueIdle
  /\ fs = {}
  /\ mk = MkIdle

\* The webhook view calls verify_secret(request, repo, api).
VerifySecret ==
  /\ vcall.out.kind = "pending"
  /\ vcall' = [vcall EXCEPT !.out = verify_secret(vcall.body, vcall.header, vcall.secret, vcall.api)]
  /\ UNCHANGED <<gcall, scall, rn, wl, streams, bq, fs, mk>>

NextVerify == VerifySecret

SpecVerify == InitVerify /\ [][NextVerify]_vars

VerifyDone == vcall.out.kind # "pending"
IsJsonBody(body) == decode(body).kind = "return" /\ json_loads(body).kind = "return"

\* C1: for GitHub, verify_secret returns true if and only if the header value
\* is exactly "sha1=" followed by the hex HMAC-SHA1 of the raw body keyed by
\* repo.secret; every other header value and every altered body yields false.
C1_GithubTrueIffExactSignature ==
  (/\ VerifyDone
   /\ vcall.api = API_GITHUB
   /\ vcall.secret.t = "str"
   /\ vcall.header.present
   /\ IsJsonBody(vcall.body))
  => vcall.out =
       Return(PyBool(vcall.header.value = Sha1Prefix \o hexdigest(vcall.secret.s, vcall.body)))

\* C2: for GitHub, a request without the X-Hub-Signature header makes
\* verify_secret return false; it does not raise. (Stated for a str secret
\* and a JSON body, where nothing but the header is amiss.)
C2_GithubNoHeaderReturnsFalse ==
  (/\ VerifyDone
   /\ vcall.api = API_GITHUB
   /\ vcall.secret.t = "str"
   /\ IsJsonBody(vcall.body)
   /\ ~vcall.header.present)
  => vcall.out = Return(PyBool(FALSE))

\* The top-level "secret" field of a JSON body, when the body is an object
\* that has one.
HasSecretField(data) ==
  data.t = "dict" /\ \E i \in 1..Len(data.keys) : data.keys[i] = "secret"
SecretField(data) == data.items[CHOOSE i \in 1..Len(data.keys) : data.keys[i] = "secret"]

\* C3: for Gogs and a JSON body, verify_secret returns true exactly when the
\* body is an object with a top-level "secret" field equal to repo.secret;
\* when the field is missing or the body is no object it returns false,
\* whatever repo.secret is (None included).
C3_GogsTrueIffSecretField ==
  (VerifyDone /\ vcall.api = API_GOGS /\ IsJsonBody(vcall.body))
  => LET data == json_loads(vcall.body).value IN
     vcall.out = Return(PyBool(HasSecretField(data) /\ PyEq(SecretField(data), vcall.secret)))

\* C4: for a provider other than Gogs and GitHub, verify_secret returns false
\* and never raises, for every body (JSON or not) and every set of headers.
C4_OtherProviderReturnsFalse ==
  (VerifyDone /\ vcall.api \notin {API_GOGS, API_GITHUB})
  => vcall.out = Return(PyBool(FALSE))

-----------------------------------------------------------------------------
(* ssh_command                                                             *)

MaxArgs == 2

\* The truth value of an optional str: None and '' are false.
Truthy(opt) == opt.some /\ opt.v # ""

SwappedFlags(c, no_ptty, identity_file) ==
  (IF Truthy(identity_file) THEN c \o <<"-i", identity_file.v>> ELSE c)
  \o (IF no_ptty THEN <<"-T">> ELSE <<>>)

\* The -T and -i steps of ssh_command, applied to the command so far.
PttyAndIdentity(c, no_ptty, identity_file) ==
  LET c1 == IF no_ptty THEN Append(c, "-T") ELSE c
  IN  IF Truthy(identity_file) THEN c1 \o <<"-i", identity_file.v>> ELSE c1

\* options is a sequence of <<key, value>> in the order of the dict;
\* ssh_verbose is config.ssh_verbose.
ssh_command(url, args, no_ptty, identity_file, verbose, options, ssh_verbose) ==
  LET opts == IF ~options.some THEN << <<"BatchMode", "yes">> >> ELSE options.v
      verb == IF ~verbose.some THEN ssh_verbose ELSE verbose.v
      c0 == <<"ssh">>
      c1 == IF url.some THEN Append(c0, url.v) ELSE c0
      c2 == c1 \o [i \in 1..Len(opts) |-> "-o" \o opts[i][1] \o "=" \o opts[i][2]]
      c3 == PttyAndIdentity(c2, no_ptty, identity_file)
      c4 == IF verb THEN Append(c3, "-v") ELSE c3
  IN  IF args # <<>> THEN Append(c4, "--") \o args ELSE c4

SshUrls == {None, Just(""), Just("git@host:repo.git")}
SshArgWords == {"git-upload-pack", "'owner/repo.git'"}
SshIdentities == {None, Just(""), Just("/root/.ssh/id_rsa")}
SshVerbose == {NoneBool, Just(TRUE), Just(FALSE)}
SshOptions ==
  { NoneDict, Just(<<>>), Just(<< <<"BatchMode", "no">> >>),
    Just(<< <<"StrictHostKeyChecking", "no">>, <<"BatchMode", "yes">> >>) }

InitSsh ==
  /\ scall \in [url : SshUrls, args : SeqsUpTo(SshArgWords, MaxArgs), no_ptty : BOOLEAN,
                identity_file : SshIdentities, verbose : SshVerbose,
                options : SshOptions, ssh_verbose : BOOLEAN,
                done : {FALSE}, out : {<<>>}]
  /\ gcall = GetIdle
  /\ vcall = VerifyIdle
  /\ rn = RunIdle
  /\ wl = WrapIdle
  /\ streams = StreamsIdle
  /\ bq = QueueIdle
  /\ fs = {}
  /\ mk = MkIdle

\* The build executor calls ssh_command(url, *args, ...).
SshCommand ==
  /\ ~scall.done
  /\ scall' = [scall EXCEPT
       !.done = TRUE,
       !.out = ssh_command(scall.url, scall.args, scall.no_ptty, scall.identity_file,
                           scall.verbose, scall.options, scall.ssh_verbose)]
  /\ UNCHANGED <<gcall, vcall, rn, wl, streams, bq, fs, mk>>

NextSsh == SshCommand

SpecSsh == InitSsh /\ [][NextSsh]_vars

\* The parts of the argument vector, as the claim lists them.
UrlPart(c) == IF c.url.some THEN <<c.url.v>> ELSE <<>>
OptionPart(c) ==
  IF c.options.some
  THEN [i \in 1..Len(c.options.v) |-> "-o" \o c.options.v[i][1] \o "=" \o c.options.v[i][2]]
  ELSE <<"-oBatchMode=yes">>
PttyPart(c) == IF c.no_ptty THEN <<"-T">> ELSE <<>>
IdentityPart(c) == IF Truthy(c.identity_file) THEN <<"-i", c.identity_file.v>> ELSE <<>>
VerbosePart(c) ==
  IF (c.verbose.some /\ c.verbose.v) \/ (~c.verbose.some /\ c.ssh_verbose)
  THEN <<"-v">> ELSE <<>>
ExtraPart(c) == IF c.args # <<>> THEN <<"--">> \o c.args ELSE <<>>

\* C7: ssh_command returns "ssh", the url if given, one -o<k>=<v> per option
\* (BatchMode=yes when no options are passed), -T if no_ptty, -i and the
\* identity file if one is set, -v if verbose, and "--" with the extra
\* arguments if there are any, in this order; for the url git@host:repo.git
\* and nothing else it is exactly ssh git@host:repo.git -oBatchMode=yes.
C7_SshCommandVector ==
  scall.done =>
    /\ scall.out = <<"ssh">> \o UrlPart(scall) \o OptionPart(scall) \o PttyPart(scall)
                   \o IdentityPart(scall) \o VerbosePart(scall) \o ExtraPart(scall)
    /\ (/\ scall.url = Just("git@host:repo.git")
        /\ scall.args = <<>>
        /\ ~scall.options.some
        /\ ~Truthy(scall.identity_file)
        /\ ~scall.no_ptty
        /\ scall.verbose = Just(FALSE))
       => scall.out = <<"ssh", "git@host:repo.git", "-oBatchMode=yes">>

\* A call with every part present has returned.
C7_Witness ==
  /\ scall.done
  /\ scall.url.some /\ scall.no_ptty /\ Truthy(scall.identity_file)
  /\ scall.verbose = Just(TRUE) /\ Len(scall.args) = 2
  /\ scall.options.some /\ Len(scall.options.v) = 2
  /\ Len(scall.out) = 11

-----------------------------------------------------------------------------
(* run                                                                     *)

MaxCmdLen == 4

\* The characters of a command: a safe one, white space, the two quotes.
CmdChars == {"a", " ", "'"}
SafeChars == {"a"}
SQ == "'"
DQ == "\""

\* shlex.quote(word)
quote(word) ==
  IF word = <<>> THEN <<SQ, SQ>>
  ELSE IF \A i \in 1..Len(word) : word[i] \in SafeChars THEN word
  ELSE <<SQ>> \o replace(word, <<SQ>>, <<SQ, DQ, SQ, DQ, SQ>>) \o <<SQ>>

\* shlex.split(text), over text without backslash and comment characters:
\* the scanner is between words ("ws"), in a word ("word"), or in a quotation
\* ("sq", "dq"); a quotation left open raises ValueError.
RECURSIVE ShlexScan(_, _, _, _, _)
ShlexScan(cs, i, state, token, words) ==
  IF i > Len(cs)
  THEN IF state \in {"sq", "dq"} THEN Raise("ValueError")
       ELSE [kind |-> "return", words |-> IF state = "word" THEN Append(words, token) ELSE words]
  ELSE LET c == cs[i] IN
    CASE state \in {"ws", "word"} /\ c = " " ->
           ShlexScan(cs, i + 1, "ws", <<>>,
                     IF state = "word" THEN Append(words, token) ELSE words)
      [] state \in {"ws", "word"} /\ c = SQ -> ShlexScan(cs, i + 1, "sq", token, words)
      [] state \in {"ws", "word"} /\ c = DQ -> ShlexScan(cs, i + 1, "dq", token, words)
      [] state = "sq" /\ c = SQ -> ShlexScan(cs, i + 1, "word", token, words)
      [] state = "dq" /\ c = DQ -> ShlexScan(cs, i + 1, "word", token, words)
      [] OTHER ->
           ShlexScan(cs, i + 1, IF state = "ws" THEN "word" ELSE state,
                     Append(token, c), words)

shlex_split(text) == ShlexScan(text, 1, "ws", <<>>, <<>>)

\* logger.info(msg), logger.error(msg)
LogEntry(level, msg) == [level |-> level, msg |-> msg]

\* A command is a str (text) or a list of words (argv).
StrCommand(text) == [isstr |-> TRUE, text |-> text, argv |-> <<>>]
ListCommand(argv) == [isstr |-> FALSE, text |-> <<>>, argv |-> argv]

\* The list commands: every list of words whose words and the gaps between
\* them take at most MaxCmdLen characters.
RunCommands ==
  {StrCommand(t) : t \in SeqsUpTo(CmdChars, MaxCmdLen)}
  \cup {ListCommand(SplitOn(t, "|")) : t \in SeqsUpTo(CmdChars \cup {"|"}, MaxCmdLen)}

ExitCodes == {0, 1, -9}
ChildOutputs ==
  { [utf8 |-> TRUE, text |-> <<>>],
    [utf8 |-> TRUE, text |-> <<"o", "k", "\n">>],
    [utf8 |-> FALSE, text |-> <<"\\xff">>] }

InitRun ==
  /\ rn \in [command : RunCommands, shell : BOOLEAN, pc : {"call"}, log : {<<>>},
             popen : {RunIdle.popen}, returncode : {0}, stdout : {RunIdle.stdout},
             out : {Pending}]
  /\ gcall = GetIdle
  /\ vcall = VerifyIdle
  /\ scall = SshIdle
  /\ wl = WrapIdle
  /\ streams = StreamsIdle
  /\ bq = QueueIdle
  /\ fs = {}
  /\ mk = MkIdle

\* Lines 259-266 of run: the command is converted and logged. shlex.split
\* raises ValueError before anything is logged.
RunLogCommand ==
  /\ rn.pc = "call"
  /\ LET cmd == rn.command IN
     IF rn.shell
     THEN LET text == IF cmd.isstr THEN cmd.text ELSE join(<<" ">>, [i \in 1..Len(cmd.argv) |-> quote(cmd.argv[i])])
          IN  rn' = [rn EXCEPT !.pc = "popen", !.popen = StrCommand(text),
                               !.log = Append(@, LogEntry("info", <<"$", " ">> \o text))]
     ELSE LET sp == IF cmd.isstr THEN shlex_split(cmd.text)
                    ELSE [kind |-> "return", words |-> cmd.argv]
          IN  IF sp.kind = "raise"
              THEN rn' = [rn EXCEPT !.pc = "raised", !.out = Raise(sp.exc)]
              ELSE rn' = [rn EXCEPT !.pc = "popen", !.popen = ListCommand(sp.words),
                            !.log = Append(@, LogEntry("info",
                               <<"$", " ">> \o join(<<" ">>, [i \in 1..Len(sp.words) |-> quote(sp.words[i])])))]
  /\ UNCHANGED <<gcall, vcall, scall, wl, streams, bq, fs, mk>>

\* subprocess.Popen(...): the child starts, or the program cannot be started
\* (OSError).
RunPopen ==
  /\ rn.pc = "popen"
  /\ \/ rn' = [rn EXCEPT !.pc = "child"]
     \/ rn' = [rn EXCEPT !.pc = "raised", !.out = Raise("OSError")]
  /\ UNCHANGED <<gcall, vcall, scall, wl, streams, bq, fs, mk>>

\* The child process writes its output and exits; communicate() returns.
ChildExit ==
  /\ rn.pc = "child"
  /\ \E code \in ExitCodes, output \in ChildOutputs :
       rn' = [rn EXCEPT !.pc = "exited", !.returncode = code, !.stdout = output]
  /\ UNCHANGED <<gcall, vcall, scall, wl, streams, bq, fs, mk>>

OutputLevelSwapped(returncode) == IF returncode # 0 THEN "info" ELSE "error"

\* The level of the output entry.
OutputLevel(returncode) == IF returncode # 0 THEN "error" ELSE "info"

\* Lines 271-277 of run: the output is decoded, logged if there is any, and
\* the exit code returned.
RunFinish ==
  /\ rn.pc = "exited"
  /\ IF ~rn.stdout.utf8
     THEN rn' = [rn EXCEPT !.pc = "raised", !.out = Raise("UnicodeDecodeError")]
     ELSE rn' = [rn EXCEPT
            !.pc = "returned",
            !.log = IF rn.stdout.text # <<>>
                    THEN Append(@, LogEntry(OutputLevel(rn.returncode), <<"\n">> \o rn.stdout.text))
                    ELSE @,
            !.out = Return(PyInt(rn.returncode))]
  /\ UNCHANGED <<gcall, vcall, scall, wl, streams, bq, fs, mk>>

NextRun == RunLogCommand \/ RunPopen \/ ChildExit \/ RunFinish

SpecRun == InitRun /\ [][NextRun]_vars

\* An entry with the command line that is executed: "$ " and, for a shell,
\* the text given to the shell; without a shell, a text that shlex splits
\* into the argument vector given to Popen.
IsCommandEntry(e) ==
  /\ e.level = "info"
  /\ Len(e.msg) >= 2 /\ SubSeq(e.msg, 1, 2) = <<"$", " ">>
  /\ LET line == SubSeq(e.msg, 3, Len(e.msg)) IN
     IF rn.popen.isstr THEN line = rn.popen.text
     ELSE shlex_split(line) = [kind |-> "return", words |-> rn.popen.argv]

-----------------------------------------------------------------------------
(* with_logger and create_logger                                           *)

MaxHandlerLogs == 1

\* The exceptions a handler raises; the first two are subclasses of Exception,
\* the others of BaseException only.
Exceptions == {"ValueError", "KeyError", "KeyboardInterrupt", "SystemExit"}
IsException(exc) == exc \in {"ValueError", "KeyError"}

\* What a handler returns.
HandlerResults == {PyInt(200), PyInt(404), PyNone}

\* create_logger(stream): a new logger whose handler writes to stream.
create_logger(stream) == stream

\* logger.info(msg), logger.exception(exc): an entry on the logger's stream.
LogTo(logger, level, msg, by) ==
  [streams EXCEPT ![logger] = Append(@, [level |-> level, msg |-> msg, by |-> by])]

InitWrap ==
  /\ wl \in [Requests -> [pc : {"call"}, replace : BOOLEAN,
                          kwargs : {{}, {"stream"}, {"stream", "build_id"}},
                          logger : {""}, handler : {Pending}, out : {Pending}]]
  /\ streams = StreamsIdle
  /\ gcall = GetIdle
  /\ vcall = VerifyIdle
  /\ scall = SshIdle
  /\ rn = RunIdle
  /\ bq = QueueIdle
  /\ fs = {}
  /\ mk = MkIdle

\* The wrapper takes the stream out of the keyword arguments (KeyError when
\* there is none) and puts a logger into them.
WrapperEnter(r) ==
  /\ wl[r].pc = "call"
  /\ IF "stream" \notin wl[r].kwargs
     THEN wl' = [wl EXCEPT ![r].pc = "done", ![r].out = Raise("KeyError")]
     ELSE wl' = [wl EXCEPT
            ![r].pc = "handler",
            ![r].kwargs = (IF wl[r].replace THEN @ \ {"stream"} ELSE @) \cup {"logger"},
            ![r].logger = create_logger(r)]
  /\ UNCHANGED <<gcall, vcall, scall, rn, streams, bq, fs, mk>>

\* The handler logs to the logger it was given.
HandlerLog(r) ==
  /\ wl[r].pc = "handler"
  /\ Len(streams[wl[r].logger]) < MaxHandlerLogs
  /\ streams' = LogTo(wl[r].logger, "info", "building", r)
  /\ UNCHANGED <<gcall, vcall, scall, rn, wl, bq, fs, mk>>

\* The handler returns; the wrapper returns its result.
HandlerReturn(r) ==
  /\ wl[r].pc = "handler"
  /\ \E result \in HandlerResults :
       wl' = [wl EXCEPT ![r].pc = "done", ![r].handler = Return(result),
                        ![r].out = Return(result)]
  /\ UNCHANGED <<gcall, vcall, scall, rn, streams, bq, fs, mk>>

CaughtExceptionOnly(exc) == IsException(exc)

\* The wrapper's except clause: except BaseException.
Caught(exc) == TRUE

\* The handler raises; the wrapper logs what it catches and returns 500.
HandlerRaise(r) ==
  /\ wl[r].pc = "handler"
  /\ \E exc \in Exceptions :
       IF Caught(exc)
       THEN /\ streams' = LogTo(wl[r].logger, "error", exc, r)
            /\ wl' = [wl EXCEPT ![r].pc = "done", ![r].handler = Raise(exc),
                                ![r].out = Return(PyInt(500))]
       ELSE /\ wl' = [wl EXCEPT ![r].pc = "done", ![r].handler = Raise(exc),
                                ![r].out = Raise(exc)]
            /\ UNCHANGED streams
  /\ UNCHANGED <<gcall, vcall, scall, rn, bq, fs, mk>>

NextWrap ==
  \E r \in Requests :
    WrapperEnter(r) \/ HandlerLog(r) \/ HandlerReturn(r) \/ HandlerRaise(r)

SpecWrap == InitWrap /\ [][NextWrap]_vars

\* C8: the wrapper of with_logger propagates no failure of the handler: what
\* the handler raises is logged to the logger of the handler's own stream and
\* the wrapper returns 500; what the handler returns, the wrapper returns.
C8_HandlerFailureContained ==
  \A r \in Requests :
    /\ wl[r].out.kind = "raise" => wl[r].handler.kind = "pending"
    /\ wl[r].handler.kind = "raise" =>
         /\ wl[r].out = Return(PyInt(500))
         /\ streams[r] # <<>>
         /\ streams[r][Len(streams[r])] = [level |-> "error", msg |-> wl[r].handler.exc, by |-> r]
    /\ wl[r].handler.kind = "return" => wl[r].out = wl[r].handler
    /\ \A i \in 1..Len(streams[r]) : streams[r][i].by = r

\* A handler has raised an exception that is no subclass of Exception, while
\* the handler of another request has returned.
C8_Witness ==
  /\ wl["r1"].handler = Raise("KeyboardInterrupt")
  /\ wl["r1"].out = Return(PyInt(500))
  /\ Len(streams["r1"]) = 2
  /\ wl["r2"].handler = Return(PyInt(200))

-----------------------------------------------------------------------------
(* main and the build queue                                                *)

MaxParallel == 3
MaxBuilds == 2

Repos == {"alice/app", "bob/lib"}
Job(repo, num) == [repo |-> repo, num |-> num]
Jobs == {Job(repo, num) : repo \in Repos, num \in 1..MaxBuilds}

OthersQ == <<gcall, vcall, scall, rn, wl, streams, fs, mk>>

SlotCountPlusOne(parallel_builds) == parallel_builds + 1

\* The number of worker slots that start() brings up.
SlotCount(parallel_builds) == parallel_builds

\* queue.start(): parallel_builds worker slots, all idle.
queue_start(q) == [q EXCEPT !.slots = [i \in 1..SlotCount(q.parallel_builds) |-> NoJob]]

\* The configuration is read: parallel_builds may be any positive number.
InitQueue ==
  /\ \E n \in 1..MaxParallel :
       bq = [main |-> "boot", parallel_builds |-> n, slots |-> <<>>, pending |-> <<>>,
             status |-> [j \in Jobs |-> "None"], next_num |-> [r \in Repos |-> 1]]
  /\ gcall = GetIdle
  /\ vcall = VerifyIdle
  /\ scall = SshIdle
  /\ rn = RunIdle
  /\ wl = WrapIdle
  /\ streams = StreamsIdle
  /\ fs = {}
  /\ mk = MkIdle

\* main(): queue.start(), then app.run(...) serves requests.
MainStart ==
  /\ bq.main = "boot"
  /\ bq' = [queue_start(bq) EXCEPT !.main = "serving"]
  /\ UNCHANGED OthersQ

\* enqueue(repository, ...): the next build number of the repository, a job
\* in Pending state, at the end of the pending queue.
Enqueue(repo) ==
  /\ bq.main = "serving"
  /\ bq.next_num[repo] <= MaxBuilds
  /\ LET job == Job(repo, bq.next_num[repo]) IN
     bq' = [bq EXCEPT !.next_num[repo] = @ + 1,
                      !.status[job] = "Pending",
                      !.pending = Append(@, job)]
  /\ UNCHANGED OthersQ

\* An idle slot takes the first pending job and runs it.
Dispatch ==
  /\ bq.main = "serving"
  /\ bq.pending # <<>>
  /\ \E slot \in 1..Len(bq.slots) :
       /\ bq.slots[slot] = NoJob
       /\ LET job == Head(bq.pending) IN
          bq' = [bq EXCEPT !.pending = Tail(@),
                           !.slots[slot] = job,
                           !.status[job] = "Running"]
  /\ UNCHANGED OthersQ

\* The build of a slot ends: exit code 0 is Success, any other Failed.
Complete ==
  /\ bq.main \in {"serving", "stopping"}
  /\ \E slot \in 1..Len(bq.slots), final \in {"Success", "Failed"} :
       /\ bq.slots[slot] # NoJob
       /\ bq' = [bq EXCEPT !.slots[slot] = NoJob,
                           !.status[bq.slots[slot]] = final]
  /\ UNCHANGED OthersQ

\* main(): app.run(...) ends; finally queue.stop() tells the workers to take
\* no more jobs.
MainStop ==
  /\ bq.main = "serving"
  /\ bq' = [bq EXCEPT !.main = "stopping"]
  /\ UNCHANGED OthersQ

\* queue.stop() returns once every slot is idle, and main() with it.
MainExit ==
  /\ bq.main = "stopping"
  /\ \A i \in 1..Len(bq.slots) : bq.slots[i] = NoJob
  /\ bq' = [bq EXCEPT !.main = "exit"]
  /\ UNCHANGED OthersQ

NextQueue ==
  \/ MainStart
  \/ \E repo \in Repos : Enqueue(repo)
  \/ Dispatch
  \/ Complete
  \/ MainStop
  \/ MainExit

SpecQueue == InitQueue /\ [][NextQueue]_vars

Running == {j \in Jobs : bq.status[j] = "Running"}

\* C5: at no instant are more than parallel_builds BuildJobs in Running state,
\* for every configured parallel_builds and every interleaving of enqueue calls
\* and job completions.
C5_AtMostParallelBuildsRunning ==
  bq.main # "idle" => Cardinality(Running) <= bq.parallel_builds

\* Every slot of a pool of two is busy and a third job waits.
C5_Witness ==
  /\ bq.parallel_builds = 2
  /\ Cardinality(Running) = 2
  /\ Len(bq.pending) >= 1

-----------------------------------------------------------------------------
(* makedirs                                                                *)

OthersM == <<gcall, vcall, scall, rn, wl, streams, bq>>

\* Directories are sequences of names below build_dir, which exists.
Dirs == {<<"alice">>, <<"alice", "app">>, <<"alice", "app", "1">>, <<"alice", "app", "2">>}
Parent(path) == SubSeq(path, 1, Len(path) - 1)
Exists(path) == path = <<>> \/ path \in fs

\* A frame of os.makedirs: the directory to make and the place in the code.
Frame(path, at) == [path |-> path, at |-> at]

InitMakedirs ==
  /\ fs \in {{}, {<<"alice">>}}
  /\ mk \in [Workers -> [pc : {"call"}, path : Dirs \ {<<"alice">>}, stack : {<<>>},
                         out : {Pending}]]
  /\ gcall = GetIdle
  /\ vcall = VerifyIdle
  /\ scall = SshIdle
  /\ rn = RunIdle
  /\ wl = WrapIdle
  /\ streams = StreamsIdle
  /\ bq = QueueIdle

\* makedirs(path): os.path.exists(path) is read; nothing is done when the
\* directory exists, otherwise os.makedirs(path) is entered.
MakedirsCheck(w) ==
  /\ mk[w].pc = "call"
  /\ IF Exists(mk[w].path)
     THEN mk' = [mk EXCEPT ![w].pc = "done", ![w].out = Return(PyNone)]
     ELSE mk' = [mk EXCEPT ![w].pc = "os.makedirs",
                           ![w].stack = <<Frame(mk[w].path, "head")>>]
  /\ UNCHANGED <<fs>>
  /\ UNCHANGED OthersM

\* os.makedirs(name): when the parent does not exist, os.makedirs(parent) is
\* called first.
OsMakedirsHead(w) ==
  /\ mk[w].pc = "os.makedirs"
  /\ LET top == mk[w].stack[1]
         head == Parent(top.path)
     IN  /\ top.at = "head"
         /\ IF ~Exists(head)
            THEN mk' = [mk EXCEPT ![w].stack =
                          <<Frame(head, "head"), Frame(top.path, "mkdir")>> \o Tail(@)]
            ELSE mk' = [mk EXCEPT ![w].stack = <<Frame(top.path, "mkdir")>> \o Tail(@)]
  /\ UNCHANGED <<fs>>
  /\ UNCHANGED OthersM

\* os.makedirs(name): mkdir(name). FileExistsError out of the call for a parent
\* is passed over; out of the outermost call it reaches the caller of makedirs.
OsMakedirsMkdir(w) ==
  /\ mk[w].pc = "os.makedirs"
  /\ LET top == mk[w].stack[1]
         rest == Tail(mk[w].stack)
     IN  /\ top.at = "mkdir"
         /\ IF ~Exists(Parent(top.path))
            THEN /\ mk' = [mk EXCEPT ![w].pc = "done", ![w].stack = <<>>,
                                     ![w].out = Raise("FileNotFoundError")]
                 /\ UNCHANGED fs
            ELSE IF Exists(top.path)
            THEN /\ IF rest = <<>>
                    THEN mk' = [mk EXCEPT ![w].pc = "done", ![w].stack = <<>>,
                                          ![w].out = Raise("FileExistsError")]
                    ELSE mk' = [mk EXCEPT ![w].stack = rest]
                 /\ UNCHANGED fs
            ELSE /\ fs' = fs \cup {top.path}
                 /\ IF rest = <<>>
                    THEN mk' = [mk EXCEPT ![w].pc = "done", ![w].stack = <<>>,
                                          ![w].out = Return(PyNone)]
                    ELSE mk' = [mk EXCEPT ![w].stack = rest]
  /\ UNCHANGED OthersM

NextMakedirs ==
  \E w \in Workers : MakedirsCheck(w) \/ OsMakedirsHead(w) \/ OsMakedirsMkdir(w)

SpecMakedirs == InitMakedirs /\ [][NextMakedirs]_vars

\* C10: makedirs stays silent under every interleaving: when workers call it
\* on the same path at the same time, every call completes without an error
\* and the directory exists afterwards.
C10_MakedirsSilent ==
  \A w \in Workers :
    mk[w].pc = "done" => mk[w].out = Return(PyNone) /\ Exists(mk[w].path)

====
